---- MODULE Spec2Model ----
(***************************************************************************)
(* Model of the trajectory-matching distillation loop of distill_MTT.py:   *)
(* the expert buffer (load-all and streaming), the segment sampling, the   *)
(* inner unroll over synthetic batches, the optimizer update, and the      *)
(* evaluation / checkpoint phases of every outer iteration.                *)
(***************************************************************************)
EXTENDS Integers, Sequences, FiniteSets, TLC

VARIABLES
    args,               \* the parsed command line (constant during a run)
    disk,               \* the expert directory: file names present, their contents
    pc,                 \* position of main()
    error,              \* the exception that ended the run, "" if none
    it,                 \* outer loop index
    expert_files,       \* streaming: list of paths
    file_idx,           \* streaming: cursor into expert_files
    expert_idx,         \* streaming: cursor into buffer
    buffer,             \* list of trajectories held in memory
    expert_trajectory,  \* the trajectory drawn in this iteration
    start_epoch,        \* the start epoch sampled in this iteration
    best_acc,           \* per evaluation model: best mean test accuracy
    acc_test_mean,      \* per evaluation model: mean test accuracy of this iteration
    save_best_it,       \* whether an evaluation of this iteration improved
    image_syn,          \* value of the learnable synthetic images
    syn_lr,             \* value of the learnable learning rate
    label_syn,          \* the synthetic labels
    grad,               \* the iterations whose loss is summed in image_syn.grad, syn_lr.grad
    image_syn_eval,     \* the copy of the images handed to the evaluation routine
    label_syn_eval,     \* the copy of the labels handed to the evaluation routine
    student_params,     \* the unrolled flat parameter vectors
    step,               \* inner loop index
    indices_chunks,     \* chunks of the current permutation not yet consumed
    these_indices,      \* the chunk consumed by the current inner step
    saved,              \* the pairs written by torch.save: <<it, name>>
    num_classes,        \* from get_dataset
    model_eval_pool,    \* from get_eval_pool: the evaluation models 1..P
    hist                \* observations of the run (not program state)

vars == <<args, disk, pc, error, it, expert_files, file_idx, expert_idx, buffer,
          expert_trajectory, start_epoch, best_acc, acc_test_mean, save_best_it,
          image_syn, syn_lr, label_syn, grad, image_syn_eval, label_syn_eval,
          student_params, step,
          indices_chunks, these_indices, saved, num_classes, model_eval_pool, hist>>

--------------------------------------------------------------------------
(* Bounds of the model *)

\* most replay_buffer_<n>.pt files in the expert directory
MaxFilesOnDisk == 3
\* most trajectories held by one file
MaxTrajPerFile == 2
\* largest value given to --max_files / --max_experts
MaxLimit == 2
\* largest mean test accuracy an evaluation returns (accuracies are 0..MaxAcc)
MaxAcc == 2
\* largest synthetic set (num_classes * ipc)
MaxSyn == 3
\* largest --syn_steps
MaxSynSteps == 3
\* largest --Iteration
MaxIteration == 5
\* longest trajectory (snapshots per trajectory)
MaxTrajLen == 10

\* an option left unset (argparse default=None)
None == -1

--------------------------------------------------------------------------
(* Helpers: Python list operations *)

Min(a, b) == IF a < b THEN a ELSE b

Range(s) == {s[i] : i \in 1..Len(s)}

\* lst[:m] for m >= 0
SliceTo(lst, m) == SubSeq(lst, 1, Min(m, Len(lst)))

\* the orders random.shuffle / torch.randperm can leave a list in
Shuffles(lst) == {[i \in 1..Len(lst) |-> lst[f[i]]] : f \in Permutations(1..Len(lst))}

\* range(0, n) as a list
RangeList(n) == [i \in 1..n |-> i - 1]

--------------------------------------------------------------------------
(* The expert directory *)

\* the file name os.path.exists is asked about (lines 163, 174)
DiscoverName == "replay_buffer"

\* the file name load-all mode reads (line 166)
LoadAllName == "replay_buffer"

\* the file name streaming mode stores in expert_files and later loads (line 176)
StreamName == "replalry_buffer"

Path(name, n) == [name |-> name, n |-> n]

\* os.path.exists(path): files of one name are numbered 0 .. count-1
Exists(p) == p.n < disk.count[p.name]

\* torch.load(path): the trajectories of file n, each named <<n, j>>
TorchLoad(p) == [j \in 1..disk.len[p.n] |-> <<p.n, j>>]

\* the while loop of lines 163-168 / 174-178: the first n with no file n
RECURSIVE Discover(_)
Discover(n) == IF Exists(Path(DiscoverName, n)) THEN Discover(n + 1) ELSE n

\* buffer = buffer[: args.max_experts] when max_experts is set (lines 189-190, 316-317)
TruncateExperts(b) == IF args.max_experts # None THEN SliceTo(b, args.max_experts) ELSE b

\* load-all: the concatenation of files 0 .. n-1 (lines 161-168)
RECURSIVE LoadAll(_)
LoadAll(n) == IF n = 0 THEN <<>> ELSE LoadAll(n - 1) \o TorchLoad(Path(LoadAllName, n - 1))

--------------------------------------------------------------------------
(* Tensors: a value, and whether code outside main() has written into it *)

Tensor(v) == [val |-> v, touched |-> FALSE]

\* what a callee that writes into its argument leaves behind
Perturbed(t) == [t EXCEPT !.touched = TRUE]

\* label_syn: ipc repeats of each class 0 .. num_classes-1, in order (lines 116-123)
InitLabels(nc, ipc) == [i \in 1..(nc * ipc) |-> (i - 1) \div ipc]

\* len(syn_images) = num_classes * ipc (lines 126-129)
SynSize == num_classes * args.ipc

\* args.batch_syn, defaulted to the whole synthetic set (lines 87-88)
BatchSyn == IF args.batch_syn = None THEN SynSize ELSE args.batch_syn

\* it in eval_it_pool, eval_it_pool = arange(0, Iteration + 1, eval_it) (lines 53, 200)
InEvalPool(i) == i >= 0 /\ i <= args.Iteration /\ i % args.eval_it = 0

\* list(torch.split(indices, batch_syn)): chunks of batch_syn, the last one shorter
RECURSIVE Split(_, _)
Split(indices, size) ==
    IF Len(indices) = 0 THEN <<>>
    ELSE <<SliceTo(indices, size)>>
         \o Split(SubSeq(indices, Min(size, Len(indices)) + 1, Len(indices)), size)

--------------------------------------------------------------------------
(* The state after argument parsing and synthetic-data initialisation *)

\* what an observer of the run has seen so far
InitHist(pool) ==
    [draws |-> 0,            \* trajectories drawn
     wraps |-> 0,            \* times file_idx went back to 0
     reshuffles |-> 0,       \* times expert_files was shuffled after startup
     drawn |-> {},           \* trajectories drawn since the buffer was last shuffled
     last_pass |-> {},       \* the trajectories drawn in the last completed pass
     last_buffer |-> {},     \* the trajectories the buffer held during that pass
     loads |-> {},           \* every path torch.load was called with
     used |-> {},            \* synthetic indices used since the last permutation
     perms |-> 0,            \* permutations drawn in the current unroll
     img_steps |-> 0,        \* optimizer_img.step() calls
     lr_steps |-> 0,         \* optimizer_lr.step() calls
     best_prev |-> [m \in pool |-> 0],   \* best_acc before the last evaluation
     eval_its |-> {},        \* iterations at which the evaluation ran
     evaluated |-> {},       \* what each evaluation was given: iteration, images, lr
     written |-> {}]         \* what each save event wrote: iteration, images

\* no exception so far
NoError == [type |-> "", line |-> 0]

InitState(a, d, nc, pool) ==
    /\ args = a
    /\ disk = d
    /\ num_classes = nc
    /\ model_eval_pool = pool
    /\ pc = "startup"
    /\ error = NoError
    /\ it = 0
    /\ expert_files = <<>>
    /\ file_idx = 0
    /\ expert_idx = 0
    /\ buffer = <<>>
    /\ expert_trajectory = <<>>
    /\ start_epoch = 0
    /\ best_acc = [m \in pool |-> 0]
    /\ acc_test_mean = [m \in pool |-> 0]
    /\ save_best_it = FALSE
    /\ image_syn = Tensor(0)
    /\ syn_lr = Tensor(0)
    /\ label_syn = Tensor(InitLabels(nc, a.ipc))
    /\ grad = {}
    /\ image_syn_eval = Tensor(0)
    /\ label_syn_eval = Tensor(<<>>)
    /\ student_params = <<>>
    /\ step = 0
    /\ indices_chunks = <<>>
    /\ these_indices = <<>>
    /\ saved = {}
    /\ hist = InitHist(pool)

configVars == <<args, disk, num_classes, model_eval_pool>>
bufferVars == <<expert_files, file_idx, expert_idx, buffer>>
sampleVars == <<expert_trajectory, start_epoch>>
evalVars == <<best_acc, acc_test_mean, save_best_it, image_syn_eval, label_syn_eval>>
synVars == <<image_syn, syn_lr, label_syn, grad>>
unrollVars == <<student_params, step, indices_chunks, these_indices>>

\* an exception raised at a source line and caught by nobody: the process ends
Raise(e, line) == pc' = "crashed" /\ error' = [type |-> e, line |-> line]

--------------------------------------------------------------------------
(* Startup: building the buffer (lines 159-195) *)

\* expert_files as built by lines 172-178, before the shuffle
ListedFiles(n) == [i \in 1..n |-> Path(StreamName, i - 1)]

\* expert_files = expert_files[: args.max_files] when max_files is set (lines 184-185)
TruncateFiles(files) == IF args.max_files # None THEN SliceTo(files, args.max_files) ELSE files

\* a check for missing buffers that never fires
NoBuffersUnchecked(n) == n < 0

\* if n == 0 (lines 169, 179)
NoBuffers(n) == n = 0

Startup ==
    /\ pc = "startup"
    /\ LET n == Discover(0) IN
       IF NoBuffers(n)
       THEN \* lines 169-170, 179-180
            /\ Raise("AssertionError", IF args.load_all THEN 170 ELSE 180)
            /\ UNCHANGED <<bufferVars, hist>>
       ELSE IF args.load_all
       THEN \* lines 160-168
            /\ buffer' = LoadAll(n)
            /\ hist' = [hist EXCEPT !.loads = {Path(LoadAllName, i) : i \in 0..(n - 1)}]
            /\ pc' = "evaluate"
            /\ UNCHANGED <<error, expert_files, file_idx, expert_idx>>
       ELSE \* lines 172-191
            \E shuffled \in Shuffles(ListedFiles(n)) :
                LET files == TruncateFiles(shuffled) IN
                IF Len(files) = 0
                THEN \* expert_files[file_idx] of an empty list (line 187)
                     /\ Raise("IndexError", 187)
                     /\ expert_files' = files
                     /\ UNCHANGED <<file_idx, expert_idx, buffer, hist>>
                ELSE IF ~Exists(files[1])
                THEN \* torch.load of a path that is not there (line 188)
                     /\ Raise("FileNotFoundError", 188)
                     /\ expert_files' = files
                     /\ hist' = [hist EXCEPT !.loads = {files[1]}]
                     /\ UNCHANGED <<file_idx, expert_idx, buffer>>
                ELSE \E b \in Shuffles(TruncateExperts(TorchLoad(files[1]))) :
                     /\ expert_files' = files
                     /\ file_idx' = 0
                     /\ expert_idx' = 0
                     /\ buffer' = b
                     /\ hist' = [hist EXCEPT !.loads = {files[1]}]
                     /\ pc' = "evaluate"
                     /\ UNCHANGED error
    /\ UNCHANGED <<configVars, it, sampleVars, evalVars, synVars, unrollVars, saved>>

--------------------------------------------------------------------------
(* Evaluation phase of an outer iteration (lines 198-253) *)

\* acc_test_mean > best_acc[model_eval] (line 246)
Improves(acc, best) == acc > best

\* a callee handed the live tensor itself
AfterCalleeAliased(live, given) == given

\* a live tensor after a callee was given a deep, detached copy of it (lines 221-228):
\* whatever the callee did to the copy, the live tensor is as before
AfterCallee(live, given) == live

Evaluate ==
    /\ pc = "evaluate"
    /\ IF InEvalPool(it) /\ it > 0
       THEN \E accs \in [model_eval_pool -> 0..MaxAcc], touch \in BOOLEAN :
              LET img == IF touch THEN Perturbed(image_syn) ELSE image_syn
                  lab == IF touch THEN Perturbed(label_syn) ELSE label_syn
              IN
              /\ image_syn_eval' = img
              /\ label_syn_eval' = lab
              /\ image_syn' = AfterCallee(image_syn, img)
              /\ label_syn' = AfterCallee(label_syn, lab)
              /\ acc_test_mean' = accs
              /\ best_acc' = [m \in model_eval_pool |->
                                IF Improves(accs[m], best_acc[m]) THEN accs[m]
                                ELSE best_acc[m]]
              /\ save_best_it' = \E m \in model_eval_pool : Improves(accs[m], best_acc[m])
              /\ hist' = [hist EXCEPT !.best_prev = best_acc,
                                      !.eval_its = @ \cup {it},
                                      !.evaluated = @ \cup {[it |-> it, img |-> img.val,
                                                             lr |-> syn_lr.val]}]
       ELSE /\ save_best_it' = FALSE
            /\ UNCHANGED <<best_acc, acc_test_mean, image_syn_eval, label_syn_eval,
                           image_syn, label_syn, hist>>
    /\ pc' = "checkpoint"
    /\ UNCHANGED <<configVars, error, it, bufferVars, sampleVars, syn_lr, grad,
                   unrollVars, saved>>

--------------------------------------------------------------------------
(* Checkpoint phase of an outer iteration (lines 255-285) *)

\* the condition without its it > 0
SaveConditionUnguarded == InEvalPool(it) /\ (save_best_it \/ it % args.save_it = 0)

\* the condition of lines 255-257
SaveCondition == InEvalPool(it) /\ (save_best_it \/ it % args.save_it = 0) /\ it > 0

\* the pair written: images_best/labels_best, or images_<it>/labels_<it> (lines 269-285)
SavedPair == [it |-> it, name |-> IF save_best_it THEN "best" ELSE "numbered"]

Checkpoint ==
    /\ pc = "checkpoint"
    /\ saved' = IF SaveCondition THEN saved \cup {SavedPair} ELSE saved
    /\ hist' = IF SaveCondition
               THEN [hist EXCEPT !.written = @ \cup {[it |-> it, img |-> image_syn.val]}]
               ELSE hist
    /\ pc' = "sample"
    /\ UNCHANGED <<configVars, error, it, bufferVars, sampleVars, evalVars, synVars,
                   unrollVars>>

--------------------------------------------------------------------------
(* Drawing a trajectory from the buffer (lines 301-318) *)

\* a buffer taken for exhausted one draw early
ExhaustedEarly(idx, buf) == idx >= Len(buf) - 1

\* expert_idx == len(buffer) (line 306)
Exhausted(idx, buf) == idx = Len(buf)

\* a file list taken for finished one file early
WrappedEarly(fidx, files) == fidx >= Len(files) - 1

\* file_idx == len(expert_files) (line 309)
Wrapped(fidx, files) == fidx = Len(files)

\* the cursor after a draw that does not exhaust the buffer (line 305)
Advance(idx) == idx + 1

Draw ==
    /\ pc = "sample"
    /\ IF args.load_all
       THEN IF Len(buffer) = 0
            THEN \* np.random.randint(0, 0) (line 302)
                 /\ Raise("ValueError", 302)
                 /\ UNCHANGED <<bufferVars, expert_trajectory, hist>>
            ELSE \E i \in 1..Len(buffer) :
                 /\ expert_trajectory' = buffer[i]
                 /\ hist' = [hist EXCEPT !.draws = @ + 1]
                 /\ pc' = "segment"
                 /\ UNCHANGED <<error, bufferVars>>
       ELSE IF expert_idx >= Len(buffer)
            THEN \* buffer[expert_idx] out of range (line 304)
                 /\ Raise("IndexError", 304)
                 /\ UNCHANGED <<bufferVars, expert_trajectory, hist>>
            ELSE LET t == buffer[expert_idx + 1]
                     idx == Advance(expert_idx)
                 IN
                 IF ~Exhausted(idx, buffer)
                 THEN /\ expert_trajectory' = t
                      /\ expert_idx' = idx
                      /\ hist' = [hist EXCEPT !.draws = @ + 1, !.drawn = @ \cup {t}]
                      /\ pc' = "segment"
                      /\ UNCHANGED <<error, expert_files, file_idx, buffer>>
                 ELSE LET wrap == Wrapped(file_idx + 1, expert_files)
                          fidx == IF wrap THEN 0 ELSE file_idx + 1
                          seen == [hist EXCEPT !.draws = @ + 1,
                                               !.drawn = {},
                                               !.last_pass = hist.drawn \cup {t},
                                               !.last_buffer = Range(buffer),
                                               !.wraps = IF wrap THEN @ + 1 ELSE @,
                                               !.reshuffles = IF wrap THEN @ + 1 ELSE @]
                      IN
                      \E files \in (IF wrap THEN Shuffles(expert_files) ELSE {expert_files}) :
                        LET path == files[fidx + 1] IN
                        IF args.max_files # 1 /\ ~Exists(path)
                        THEN \* torch.load of a path that is not there (line 315)
                             /\ Raise("FileNotFoundError", 315)
                             /\ expert_trajectory' = t
                             /\ expert_idx' = 0
                             /\ file_idx' = fidx
                             /\ expert_files' = files
                             /\ hist' = [seen EXCEPT !.loads = @ \cup {path}]
                             /\ UNCHANGED buffer
                        ELSE \E b \in Shuffles(TruncateExperts(
                                          IF args.max_files # 1 THEN TorchLoad(path)
                                          ELSE buffer)) :
                             /\ expert_trajectory' = t
                             /\ expert_idx' = 0
                             /\ file_idx' = fidx
                             /\ expert_files' = files
                             /\ buffer' = b
                             /\ hist' = [seen EXCEPT !.loads = IF args.max_files # 1
                                                               THEN @ \cup {path} ELSE @]
                             /\ pc' = "segment"
                             /\ UNCHANGED error
    /\ UNCHANGED <<configVars, it, start_epoch, evalVars, synVars, unrollVars, saved>>

--------------------------------------------------------------------------
(* Choosing the segment and seeding the unroll (lines 319-340) *)

\* len(expert_trajectory): the snapshots of a trajectory
TrajLen(t) == disk.L

\* a sampler whose upper end is inclusive
StartEpochsInclusive(max) == 0..max

\* the values np.random.randint(0, args.max_start_epoch) can return (line 319)
StartEpochs(max) == 0..(max - 1)

\* the index of the target snapshot (line 321)
TargetEpoch(s) == s + args.expert_epochs

Segment ==
    /\ pc = "segment"
    /\ IF args.max_start_epoch <= 0
       THEN \* np.random.randint(0, high) with high <= 0 (line 319)
            /\ Raise("ValueError", 319)
            /\ UNCHANGED <<start_epoch, unrollVars>>
       ELSE \E s \in StartEpochs(args.max_start_epoch) :
            /\ start_epoch' = s
            /\ IF s >= TrajLen(expert_trajectory)
                  \/ TargetEpoch(s) >= TrajLen(expert_trajectory)
               THEN \* expert_trajectory[...] out of range (lines 320-321)
                    /\ Raise("IndexError",
                             IF s >= TrajLen(expert_trajectory) THEN 320 ELSE 321)
                    /\ UNCHANGED unrollVars
               ELSE \* student_params = [starting_params]; indices_chunks = []
                    /\ student_params' = <<[it |-> it, step |-> 0]>>
                    /\ indices_chunks' = <<>>
                    /\ step' = 0
                    /\ pc' = "unroll"
                    /\ UNCHANGED <<error, these_indices>>
    /\ hist' = [hist EXCEPT !.used = {}, !.perms = 0]
    /\ UNCHANGED <<configVars, it, bufferVars, expert_trajectory, evalVars, synVars,
                   saved>>

--------------------------------------------------------------------------
(* One inner step of the unroll (lines 341-364) *)

\* indices_chunks.pop(): the last chunk of the list (line 345)
PopItem(chunks) == chunks[Len(chunks)]

\* a pop() that leaves the chunk in the list
PopRestKeeps(chunks) == chunks

\* indices_chunks after pop() (line 345)
PopRest(chunks) == SubSeq(chunks, 1, Len(chunks) - 1)

\* the chunk lists the step can work from: the list left by the previous step, or,
\* when that is empty, the split of a fresh permutation (lines 342-344)
ChunkLists ==
    IF indices_chunks = <<>>
    THEN {Split(perm, BatchSyn) : perm \in Shuffles(RangeList(SynSize))}
    ELSE {indices_chunks}

UnrollStep ==
    /\ pc = "unroll"
    /\ step < args.syn_steps
    /\ \E chunks \in ChunkLists :
         /\ these_indices' = PopItem(chunks)
         /\ indices_chunks' = PopRest(chunks)
         /\ hist' = [hist EXCEPT
                        !.used = (IF indices_chunks = <<>> THEN {} ELSE @)
                                 \cup Range(PopItem(chunks)),
                        !.perms = IF indices_chunks = <<>> THEN @ + 1 ELSE @]
    \* student_params.append(student_params[-1] - syn_lr * grad)
    /\ student_params' = Append(student_params, [it |-> it, step |-> step + 1])
    /\ step' = step + 1
    /\ UNCHANGED <<configVars, pc, error, it, bufferVars, sampleVars, evalVars, synVars,
                   saved>>

--------------------------------------------------------------------------
(* Scoring, backward pass and optimizer steps (lines 365-389) *)

\* a learnable tensor after optimizer.step() (lines 388-389)
Stepped(t) == [t EXCEPT !.val = @ + 1]

\* the gradients after optimizer_img.zero_grad(), optimizer_lr.zero_grad() (lines 384-385)
ZeroGrad(g) == {}

\* the gradients after grand_loss.backward() of iteration i (line 386)
Backward(g, i) == g \cup {i}

Update ==
    /\ pc = "unroll"
    /\ step >= args.syn_steps
    /\ image_syn' = Stepped(image_syn)
    /\ syn_lr' = Stepped(syn_lr)
    /\ grad' = Backward(ZeroGrad(grad), it)
    /\ hist' = [hist EXCEPT !.img_steps = @ + 1, !.lr_steps = @ + 1]
    /\ pc' = "release"
    /\ UNCHANGED <<configVars, error, it, bufferVars, sampleVars, evalVars, label_syn,
                   unrollVars, saved>>

--------------------------------------------------------------------------
(* End of an outer iteration (lines 392-396, and the loop header of line 197) *)

\* student_params after "for _ in student_params: del _": del unbinds the loop
\* variable only, the list and its vectors stay referenced by student_params
Released(params) == params

\* an outer loop over range(0, Iteration): one iteration short
ReleaseOneShort ==
    /\ pc = "release"
    /\ student_params' = Released(student_params)
    /\ IF it < args.Iteration - 1
       THEN it' = it + 1 /\ pc' = "evaluate"
       ELSE it' = it /\ pc' = "done"
    /\ UNCHANGED <<configVars, error, bufferVars, sampleVars, evalVars, synVars, step,
                   indices_chunks, these_indices, saved, hist>>

Release ==
    /\ pc = "release"
    /\ student_params' = Released(student_params)
    /\ IF it < args.Iteration
       THEN it' = it + 1 /\ pc' = "evaluate"
       ELSE it' = it /\ pc' = "done"
    /\ UNCHANGED <<configVars, error, bufferVars, sampleVars, evalVars, synVars, step,
                   indices_chunks, these_indices, saved, hist>>

--------------------------------------------------------------------------

Next ==
    \/ Startup
    \/ Evaluate
    \/ Checkpoint
    \/ Draw
    \/ Segment
    \/ UnrollStep
    \/ Update
    \/ Release

--------------------------------------------------------------------------
(* Runs: the command lines and expert directories each specification covers *)

\* one small run: streaming, one file, one iteration after the first
BaseArgs ==
    [load_all |-> FALSE, max_files |-> None, max_experts |-> None,
     Iteration |-> 1, eval_it |-> 1, save_it |-> 1,
     syn_steps |-> 1, batch_syn |-> None, ipc |-> 1,
     max_start_epoch |-> 1, expert_epochs |-> 1]

BaseDisk ==
    [count |-> [replay_buffer |-> 1, replalry_buffer |-> 1],
     len |-> [n \in 0..(MaxFilesOnDisk - 1) |-> 1],
     L |-> MaxTrajLen]

\* a limit option: unset, or 0 .. MaxLimit
Limits == {None} \cup 0..MaxLimit

\* trajectories per file: the same number in every file, or 1 + (n mod MaxTrajPerFile)
FileLens ==
    {[n \in 0..(MaxFilesOnDisk - 1) |-> k] : k \in 1..MaxTrajPerFile}
    \cup {[n \in 0..(MaxFilesOnDisk - 1) |-> 1 + (n % MaxTrajPerFile)]}

\* directories: r files of the discovered name, t <= r files of the streamed name
Disks ==
    {[BaseDisk EXCEPT !.count = [replay_buffer |-> r, replalry_buffer |-> t],
                      !.len = l] :
        r \in 0..MaxFilesOnDisk, t \in 0..MaxFilesOnDisk, l \in FileLens}

\* the buffer manager under every mode and limit, over MaxIteration + 1 draws
BufferArgs ==
    {[BaseArgs EXCEPT !.load_all = la, !.max_files = mf, !.max_experts = me,
                      !.Iteration = MaxIteration, !.eval_it = MaxIteration] :
        la \in BOOLEAN, mf \in Limits, me \in Limits}

InitBuffer ==
    \E a \in BufferArgs, d \in Disks :
        /\ d.count.replalry_buffer <= d.count.replay_buffer
        /\ InitState(a, d, 1, {1})

SpecBuffer == InitBuffer /\ [][Next]_vars

--------------------------------------------------------------------------
(* Properties of the buffer manager *)

\* streaming mode, past startup
Streaming == ~args.load_all /\ pc # "startup"

\* the trajectories a file contributes to the buffer
Held(p) == Len(TruncateExperts(TorchLoad(p)))

\* C1: in streaming mode with max_files = 2, at least two files and k >= 1
\* trajectories in each loaded file, the file cursor has not wrapped before the
\* 2k-th draw, and from the 2k-th draw up to the (4k-1)-th, so after 2k+1 draws,
\* it has wrapped back to index 0 exactly once and expert_files has been
\* reshuffled exactly once.
C1_WrapsOnceAfter2kPlus1 ==
    (Streaming /\ args.max_files = 2 /\ Len(expert_files) = 2) =>
        LET k == Held(expert_files[1]) IN
        (k >= 1 /\ \A p \in Range(expert_files) : Held(p) = k) =>
            /\ hist.draws < 2 * k => (hist.wraps = 0 /\ hist.reshuffles = 0)
            /\ (hist.draws >= 2 * k /\ hist.draws < 4 * k) =>
                   (hist.wraps = 1 /\ hist.reshuffles = 1)
            /\ hist.draws = 2 * k => file_idx = 0

C1_Witness ==
    /\ Streaming /\ args.max_files = 2 /\ Len(expert_files) = 2
    /\ disk.count.replay_buffer = 3
    /\ \A p \in Range(expert_files) : Held(p) = 2
    /\ hist.draws = 5 /\ hist.wraps = 1 /\ hist.reshuffles = 1

\* what C2 says of a streaming run: at every draw the cursor is inside the buffer,
\* the trajectories drawn since the last shuffle are the first expert_idx of the
\* buffer, all different, and a completed pass has returned the whole buffer
DrawsWithoutReplacement ==
    /\ error # [type |-> "IndexError", line |-> 304]
    /\ pc = "sample" => (0 <= expert_idx /\ expert_idx < Len(buffer))
    /\ error = NoError =>
          /\ hist.drawn = {buffer[i] : i \in 1..expert_idx}
          /\ Cardinality(hist.drawn) = expert_idx
          /\ hist.last_pass = hist.last_buffer

\* C2 as claimed: for every number of files, every max_files and every max_experts
C2_Original == Streaming => DrawsWithoutReplacement

\* C2, amended: in streaming mode, when every loaded list is non-empty (max_experts
\* unset or at least 1, every file holding at least one trajectory), the cursor is
\* inside the buffer at every draw and every trajectory of a loaded list is
\* returned exactly once before the cursor moves on, for every number of files and
\* every max_files (max_files = 1 included).
C2_NonEmptyDrawsWithoutReplacement ==
    (Streaming
       /\ (args.max_experts = None \/ args.max_experts >= 1)
       /\ \A n \in DOMAIN disk.len : disk.len[n] >= 1)
    => DrawsWithoutReplacement

C2_Witness ==
    /\ Streaming /\ args.max_files = 1 /\ args.max_experts = 2
    /\ error = NoError
    /\ Cardinality(hist.last_pass) = 2
    /\ hist.wraps = 2
    /\ expert_idx = 1

\* C7: with no replay_buffer_0.pt in the expert directory, in load-all and in
\* streaming mode, the run ends at startup with the AssertionError, before any
\* outer iteration, evaluation, checkpoint write, load or optimizer step, and
\* nothing runs after the error.
C7_NoBuffersIsFatal ==
    disk.count.replay_buffer = 0 =>
        /\ pc \in {"startup", "crashed"}
        /\ pc = "crashed" => (error.type = "AssertionError" /\ ~ENABLED Next)
        /\ it = 0 /\ hist.draws = 0 /\ hist.eval_its = {} /\ saved = {}
        /\ hist.img_steps = 0 /\ hist.lr_steps = 0 /\ hist.loads = {}
        /\ buffer = <<>> /\ image_syn = Tensor(0) /\ syn_lr = Tensor(0)

C7_Witness ==
    /\ disk.count.replay_buffer = 0
    /\ ~args.load_all
    /\ pc = "crashed" /\ error = [type |-> "AssertionError", line |-> 180]

\* C9: every path streaming mode asks torch.load for is a path discovery found to
\* exist, so a directory that passes discovery never leads to loading a missing file.
C9_StreamingLoadsDiscoveredFiles ==
    Streaming =>
        /\ \A p \in hist.loads :
              \E n \in 0..(Discover(0) - 1) : p = Path(DiscoverName, n)
        /\ error.type # "FileNotFoundError"

--------------------------------------------------------------------------
(* Segment sampling *)

\* start epochs and spans around the trajectory length, over three iterations
SegmentArgs ==
    {[BaseArgs EXCEPT !.load_all = la, !.max_start_epoch = ms, !.expert_epochs = ee,
                      !.Iteration = 2] :
        la \in BOOLEAN, ms \in {0, 1, 3, 5, MaxTrajLen}, ee \in {0, 1, 3}}

SegmentDisks ==
    {[BaseDisk EXCEPT !.count = [replay_buffer |-> r, replalry_buffer |-> r],
                      !.L = l] :
        r \in 0..1, l \in (MaxTrajLen - 4)..MaxTrajLen}

InitSegment == \E a \in SegmentArgs, d \in SegmentDisks : InitState(a, d, 1, {1})

SpecSegment == InitSegment /\ [][Next]_vars

\* C3: with max_start_epoch = 5 and expert_epochs = 3, for every trajectory of
\* length L >= 9 and every outer iteration, start_epoch lies in [0, 5) and both
\* indices read, start_epoch and start_epoch + expert_epochs, are >= 0 and < L, so no
\* read of the trajectory is out of range.
C3_SegmentInBounds ==
    (args.max_start_epoch = 5 /\ args.expert_epochs = 3 /\ disk.L >= 9) =>
        /\ start_epoch >= 0 /\ start_epoch < args.max_start_epoch
        /\ start_epoch < TrajLen(expert_trajectory)
        /\ TargetEpoch(start_epoch) >= 0
        /\ TargetEpoch(start_epoch) < TrajLen(expert_trajectory)
        /\ error.line \notin {319, 320, 321}

C3_Witness ==
    /\ args.max_start_epoch = 5 /\ args.expert_epochs = 3 /\ disk.L = 9
    /\ it = 2 /\ pc = "unroll" /\ start_epoch = 4

\* a configuration whose largest target index is outside the trajectory
InvalidSegmentConfig ==
    \/ args.max_start_epoch >= disk.L
    \/ args.max_start_epoch - 1 + args.expert_epochs >= disk.L

\* C4: a configuration with max_start_epoch >= L, or with
\* max_start_epoch - 1 + expert_epochs >= L, fails before the first outer iteration
\* changes the synthetic images or the learning rate.
C4_InvalidConfigFailsBeforeFirstUpdate ==
    InvalidSegmentConfig =>
        /\ hist.img_steps = 0 /\ hist.lr_steps = 0
        /\ image_syn = Tensor(0) /\ syn_lr = Tensor(0)
        /\ pc # "done"

--------------------------------------------------------------------------
(* The inner unroll *)

\* synthetic sets of up to MaxSyn images, every batch size, up to MaxSynSteps steps
UnrollArgs ==
    {[BaseArgs EXCEPT !.syn_steps = ss, !.batch_syn = bs, !.ipc = ipc] :
        ss \in 0..MaxSynSteps, bs \in {None} \cup 1..MaxSyn, ipc \in 1..MaxSyn}

InitUnroll ==
    \E a \in UnrollArgs, nc \in 1..MaxSyn, la \in BOOLEAN :
        /\ nc * a.ipc <= MaxSyn
        /\ InitState([a EXCEPT !.load_all = la], BaseDisk, nc, {1})

SpecUnroll == InitUnroll /\ [][Next]_vars

\* the synthetic indices still waiting in indices_chunks
Waiting == UNION {Range(indices_chunks[i]) : i \in 1..Len(indices_chunks)}

RECURSIVE TotalLen(_)
TotalLen(chunks) ==
    IF Len(chunks) = 0 THEN 0 ELSE Len(chunks[1]) + TotalLen(SubSeq(chunks, 2, Len(chunks)))

\* chunks per sweep: ceil(N / batch_syn)
ChunksPerSweep == (SynSize + BatchSyn - 1) \div BatchSyn

\* C5: within one unroll, after every inner step: the indices used in the current
\* sweep and the indices of the chunks still waiting are disjoint and together are
\* 0 .. N-1; the chunk just used has no index twice and none used earlier in the
\* sweep; every chunk has batch_syn indices except the one short chunk (N mod
\* batch_syn indices, the first one consumed of a sweep) when batch_syn does not
\* divide N; and a permutation is drawn only when the chunk list is empty: after
\* s steps there were ceil(s / chunks-per-sweep) permutations.
C5_EpochStyleSweeps ==
    (step > 0 /\ pc # "crashed") =>
        /\ hist.used \cup Waiting = 0..(SynSize - 1)
        /\ Cardinality(hist.used) + TotalLen(indices_chunks) = SynSize
        /\ Range(these_indices) \subseteq hist.used
        /\ Cardinality(Range(these_indices)) = Len(these_indices)
        /\ \A i \in 1..Len(indices_chunks) : Len(indices_chunks[i]) = BatchSyn
        /\ Len(these_indices) \in {BatchSyn, SynSize % BatchSyn}
        /\ Len(these_indices) < BatchSyn => hist.used = Range(these_indices)
        /\ hist.perms * ChunksPerSweep >= step
        /\ (hist.perms - 1) * ChunksPerSweep < step

C5_Witness ==
    /\ SynSize = 3 /\ BatchSyn = 2
    /\ step = 3 /\ hist.perms = 2
    /\ Len(these_indices) = 1 /\ Len(indices_chunks) = 1

\* C10: when an outer iteration starts its evaluation, checkpoint and sampling
\* phases, no vector of an earlier iteration's unroll is still held.
C10_UnrollReleasedBeforeNextIteration ==
    pc \in {"evaluate", "checkpoint", "sample", "segment"} =>
        \A i \in 1..Len(student_params) : student_params[i].it = it

--------------------------------------------------------------------------
(* Evaluation and checkpoints *)

\* most models in the evaluation pool
MaxEvalModels == 2

\* every evaluation and save cadence over four iterations
CheckpointArgs ==
    {[BaseArgs EXCEPT !.load_all = la, !.Iteration = 3, !.eval_it = e, !.save_it = sv] :
        la \in BOOLEAN, e \in 1..3, sv \in 1..3}

InitCheckpoint ==
    \E a \in CheckpointArgs, p \in 1..MaxEvalModels : InitState(a, BaseDisk, 1, 1..p)

SpecCheckpoint == InitCheckpoint /\ [][Next]_vars

\* C6: the synthetic images and the learning rate change only in the optimizer
\* step that ends an outer iteration (evaluation, checkpoint, sampling, unroll and
\* release leave them as they are), and the labels are ipc repeats of each class in
\* order and never change.
C6_OnlyOptimizerStepMutates ==
    /\ [](label_syn = Tensor(InitLabels(num_classes, args.ipc)))
    /\ [][/\ (image_syn' # image_syn \/ syn_lr' # syn_lr) =>
               (pc = "unroll" /\ step >= args.syn_steps /\ pc' = "release")
           /\ label_syn' = label_syn]_vars

C6_Witness ==
    /\ pc = "checkpoint"
    /\ image_syn_eval.touched /\ label_syn_eval.touched
    /\ ~image_syn.touched /\ ~label_syn.touched
    /\ image_syn.val = 2

\* the checkpoint phase of the current iteration is over
AfterCheckpoint == pc \notin {"startup", "evaluate", "checkpoint"}

\* the evaluation of the current iteration improved some model's best accuracy
ImprovedNow ==
    /\ it \in hist.eval_its
    /\ \E m \in model_eval_pool : acc_test_mean[m] > hist.best_prev[m]

\* C8: a pair is saved at iteration it exactly when it > 0, it is an evaluation
\* iteration and the evaluation improved or it % save_it = 0; a save event writes
\* one pair, the best pair if the evaluation improved and the iteration-numbered
\* pair otherwise; best_acc never decreases.
C8_SaveEvents ==
    /\ AfterCheckpoint =>
          ((\E r \in saved : r.it = it) <=>
             (it > 0 /\ it % args.eval_it = 0
                /\ (ImprovedNow \/ it % args.save_it = 0)))
    /\ AfterCheckpoint =>
          \A r \in saved : r.it = it =>
             r.name = IF ImprovedNow THEN "best" ELSE "numbered"
    /\ \A r \in saved : r.it <= it /\ r.it > 0 /\ r.it % args.eval_it = 0
    /\ \A i \in 0..it : Cardinality({r \in saved : r.it = i}) <= 1
    /\ \A m \in model_eval_pool : best_acc[m] >= hist.best_prev[m]

C8_Witness ==
    /\ pc = "done"
    /\ [it |-> 1, name |-> "best"] \in saved
    /\ [it |-> 3, name |-> "numbered"] \in saved
    /\ \A r \in saved : r.it # 2
    /\ hist.eval_its = {1, 2, 3}

\* optimizer steps applied so far: one per iteration whose update is over
StepsDone == IF pc \in {"release", "done"} THEN it + 1 ELSE it

\* the iterations whose evaluation phase is over
EvalPhasesOver == {i \in 0..it : i < it \/ pc \notin {"startup", "evaluate"}}

====
